---- MODULE Spec2Model ----
(***************************************************************************)
(* A model of static/app_backup.js, the browser-side controller of the     *)
(* wine recommender chat widget.  The file holds two variants of the       *)
(* controller:                                                             *)
(*   variant "A" (lines 1-187): /next_question, /answer, /reset, options   *)
(*               parsed out of the message text, an isFetching gate;       *)
(*   variant "B" (lines 189-277): one /conversation endpoint, a structured *)
(*               options list, no gate.                                    *)
(* A page runs one of the two.  Text is modelled as a sequence of tokens:  *)
(* a token is one character (" ", ",", a newline) or an unbroken word.     *)
(* Every handler runs to its next await in one step (the browser runs one  *)
(* task at a time); an awaited fetch is an entry of inflight, and the      *)
(* continuation of the async function runs when that entry settles.        *)
(***************************************************************************)
EXTENDS Integers, Sequences, FiniteSets, TLC

VARIABLES
  variant,          \* "A" or "B": which controller the page runs
  loaded,           \* the listeners are registered (A: DOMContentLoaded fired)
  conversationDiv,  \* child nodes of #conversation, in document order
  optionsDiv,       \* child buttons of #options (variant A)
  userInput,        \* [value, disabled] of #user-input
  submitButton,     \* [disabled] of #submit-button
  isFetching,       \* the request gate flag (variant A)
  inflight,         \* fetches issued and not yet settled, in issue order
  userId,           \* the client identifier, empty until the script has run
  localStorage,     \* the browser's storage for the page's origin
  now,              \* Date.now()
  invocations,      \* the transcript getNextQuestion found at each call the
                    \* last handler made of it, in call order
  lastEvent         \* the handler that ran last, its outcome and its input

vars == <<variant, loaded, conversationDiv, optionsDiv, userInput,
          submitButton, isFetching, inflight, userId, localStorage, now,
          invocations, lastEvent>>

\* The longest transcript a user action may lead to.
MaxLines == 4

\* The latest time at which a page is loaded.
MaxClock == 3

-----------------------------------------------------------------------------
(* Text                                                                    *)

\* String.prototype.toLowerCase on the tokens the program lower-cases.
toLowerCase(tok) ==
  CASE tok = "AI" -> "ai"
    [] tok = "You" -> "you"
    [] tok = "System" -> "system"
    [] tok = "Options:" -> "options:"
    [] tok = "OPTIONS:" -> "options:"
    [] OTHER -> tok

\* The decimal digit d as a character.
Digit(d) ==
  CASE d = 0 -> "0" [] d = 1 -> "1" [] d = 2 -> "2" [] d = 3 -> "3" [] d = 4 -> "4"
    [] d = 5 -> "5" [] d = 6 -> "6" [] d = 7 -> "7" [] d = 8 -> "8" [] d = 9 -> "9"

\* Number.prototype.toString of a natural number: its decimal digits.
RECURSIVE toString(_)
toString(n) ==
  IF n < 10 THEN <<Digit(n)>> ELSE toString(n \div 10) \o <<Digit(n % 10)>>

\* \s of the regular expression and the white space trim() strips.
IsSpace(tok) == tok \in {" ", "\n"}

RECURSIVE trimStart(_)
trimStart(t) ==
  IF t # <<>> /\ IsSpace(Head(t)) THEN trimStart(Tail(t)) ELSE t

RECURSIVE trimEnd(_)
trimEnd(t) ==
  IF t # <<>> /\ IsSpace(t[Len(t)]) THEN trimEnd(SubSeq(t, 1, Len(t) - 1)) ELSE t

\* String.prototype.trim
trim(t) == trimEnd(trimStart(t))

\* The least index >= from of t that is in hits, or Len(t) + 1.
IndexFrom(t, from, hits) ==
  LET found == {i \in from..Len(t) : i \in hits} \cup {Len(t) + 1}
  IN CHOOSE i \in found : \A j \in found : i <= j

\* String.prototype.split(","): the pieces between the commas, empty ones kept.
RECURSIVE split(_)
split(t) ==
  LET i == IndexFrom(t, 1, {n \in DOMAIN t : t[n] = ","})
  IN IF i > Len(t) THEN <<t>>
     ELSE <<SubSeq(t, 1, i - 1)>> \o split(SubSeq(t, i + 1, Len(t)))

\* message.match(/Options:\s*(.*)/i): the leftmost marker in any case, then
\* all white space (line breaks included), then the group up to the next line
\* break.
match(t) ==
  LET i == IndexFrom(t, 1, {n \in DOMAIN t : toLowerCase(t[n]) = "options:"})
      j == IndexFrom(t, i + 1, {n \in DOMAIN t : ~IsSpace(t[n])})
      k == IndexFrom(t, j, {n \in DOMAIN t : t[n] = "\n"})
  IN IF i > Len(t) THEN [found |-> FALSE, group |-> <<>>]
     ELSE [found |-> TRUE, group |-> SubSeq(t, j, k - 1)]

\* optionsStr.split(",").map(o => o.trim())
ParseOptions(optionsStr) ==
  LET pieces == split(optionsStr)
  IN [i \in 1..Len(pieces) |-> trim(pieces[i])]

-----------------------------------------------------------------------------
(* Decoded JSON bodies: a record holding the fields the body carries.      *)

Has(data, f) == f \in DOMAIN data

\* A string field is truthy when it is there and not empty.
TruthyStr(data, f) == Has(data, f) /\ data[f] # <<>>

\* `${data.message}` : a missing field prints as undefined.
Str(data, f) == IF Has(data, f) THEN data[f] ELSE <<"undefined">>

\* (data.message || "")
OrEmpty(data, f) == IF Has(data, f) THEN data[f] ELSE <<>>

-----------------------------------------------------------------------------
(* The page: the part of the state the handlers read and write.            *)

S ==
  [conversationDiv |-> conversationDiv, optionsDiv |-> optionsDiv,
   userInput |-> userInput, submitButton |-> submitButton,
   isFetching |-> isFetching, inflight |-> inflight, userId |-> userId,
   invocations |-> <<>>]

Assign(s) ==
  /\ conversationDiv' = s.conversationDiv
  /\ optionsDiv' = s.optionsDiv
  /\ userInput' = s.userInput
  /\ submitButton' = s.submitButton
  /\ isFetching' = s.isFetching
  /\ inflight' = s.inflight
  /\ invocations' = s.invocations

\* The <p> lines of a node list, in order: the transcript.
Lines(nodes) ==
  LET IsP(n) == n.tag = "p" IN SelectSeq(nodes, IsP)

\* The texts of the lines.
Texts(nodes) == [i \in 1..Len(nodes) |-> nodes[i].textContent]

Transcript(s) == Texts(Lines(s.conversationDiv))

\* The .option-button nodes of variant B, in order.
OptionButtons(nodes) ==
  LET IsB(n) == n.tag = "button" IN SelectSeq(nodes, IsB)

\* addMessage inserting the new line before the first child.
addMessage_Prepend(s, sender, text) ==
  [s EXCEPT !.conversationDiv =
     <<[tag |-> "p", textContent |-> <<sender, ": ">> \o text,
        class |-> toLowerCase(sender)]>> \o @]

addMessage(s, sender, text) ==
  [s EXCEPT !.conversationDiv =
     Append(@, [tag |-> "p", textContent |-> <<sender, ": ">> \o text,
                class |-> toLowerCase(sender)])]

\* disableUI that passes over the option buttons.
disableUI_SkipsOptions(s) ==
  [s EXCEPT !.userInput.disabled = TRUE, !.submitButton.disabled = TRUE]

\* disableUI that passes over the submit button.
disableUI_LeavesSubmit(s) ==
  [s EXCEPT !.userInput.disabled = TRUE,
            !.optionsDiv = [i \in 1..Len(@) |-> [@[i] EXCEPT !.disabled = TRUE]]]

disableUI(s) ==
  [s EXCEPT !.userInput.disabled = TRUE,
            !.submitButton.disabled = TRUE,
            !.optionsDiv = [i \in 1..Len(@) |-> [@[i] EXCEPT !.disabled = TRUE]]]

\* enableUI that enables the option buttons too.
enableUI_AlsoOptions(s) ==
  [s EXCEPT !.userInput.disabled = FALSE,
            !.submitButton.disabled = FALSE,
            !.optionsDiv = [i \in 1..Len(@) |-> [@[i] EXCEPT !.disabled = FALSE]]]

enableUI(s) ==
  [s EXCEPT !.userInput.disabled = FALSE, !.submitButton.disabled = FALSE]

\* fetch(`${serverUrl}${path}?user_id=${userId}`, init): the request is on the
\* wire until it settles.
fetch(s, method, path, body) ==
  [s EXCEPT !.inflight =
     Append(@, [method |-> method, path |-> path, user_id |-> s.userId, body |-> body])]

\* The request at index i of inflight has settled.
Settled(s, i) ==
  [s EXCEPT !.inflight = SubSeq(@, 1, i - 1) \o SubSeq(@, i + 1, Len(@))]

\* A finally block that re-enables the controls and leaves the flag set.
finally_KeepsFlag(s) == enableUI(s)

\* finally { isFetching = false; enableUI(); }
finally(s) == enableUI([s EXCEPT !.isFetching = FALSE])

\* A catch block that only logs to the console.
catch_Silent(s) == s

\* catch (err) { addMessage("System", "Unable to connect to server."); }
catch(s) == addMessage(s, "System", <<"Unable to connect to server.">>)

-----------------------------------------------------------------------------
(* The identity store (both variants)                                      *)

\* What getItem returns for a key the storage does not hold; like the empty
\* string it is falsy.
Null == <<>>

\* localStorage.getItem(key)
getItem(storage, key) == IF Has(storage, key) THEN storage[key] ELSE Null

\* localStorage.setItem(key, value)
setItem(storage, key, value) ==
  [k \in DOMAIN storage \cup {key} |-> IF k = key THEN value ELSE storage[k]]

\* An identity store that takes a new identifier on every load.
identityStore_AlwaysNew(storage, t) ==
  [userId |-> toString(t), localStorage |-> setItem(storage, "wine_userId", toString(t))]

\* let userId = localStorage.getItem("wine_userId"); if (!userId) { ... }
identityStore(storage, t) ==
  LET stored == getItem(storage, "wine_userId")
  IN IF stored = Null
       THEN [userId |-> toString(t),
             localStorage |-> setItem(storage, "wine_userId", toString(t))]
       ELSE [userId |-> stored, localStorage |-> storage]

-----------------------------------------------------------------------------
(* Variant A                                                               *)

\* getNextQuestion up to its await of fetch; the call is noted with the
\* transcript it finds.
getNextQuestion(s) ==
  LET s0 == [s EXCEPT !.invocations = Append(@, Transcript(s))]
  IN IF s0.isFetching THEN s0
     ELSE fetch(disableUI([s0 EXCEPT !.isFetching = TRUE]), "GET", "/next_question", <<>>)

\* sendAnswer up to its await of fetch.
sendAnswer(s, answer) ==
  IF s.isFetching THEN s
  ELSE fetch(disableUI([s EXCEPT !.isFetching = TRUE]), "POST", "/answer", <<answer>>)

\* resetRecommender without its gate: the flag is set but never consulted.
resetRecommender_NoGate(s) ==
  fetch(disableUI([s EXCEPT !.isFetching = TRUE]), "POST", "/reset", <<>>)

\* resetRecommender up to its await of fetch.
resetRecommender(s) ==
  IF s.isFetching THEN s
  ELSE fetch(disableUI([s EXCEPT !.isFetching = TRUE]), "POST", "/reset", <<>>)

\* The buttons getNextQuestion renders for the options of a message.
RenderOptions(message) ==
  LET m == match(message)
      opts == ParseOptions(m.group)
  IN IF m.found
       THEN [i \in 1..Len(opts) |-> [textContent |-> opts[i], disabled |-> FALSE]]
       ELSE <<>>

\* getNextQuestion with the else of its error test missing.
getNextQuestionBody_BothLines(s, data) ==
  LET s1 == IF TruthyStr(data, "error") THEN addMessage(s, "System", data.error) ELSE s
      s2 == addMessage(s1, "AI", Str(data, "message"))
  IN [s2 EXCEPT !.optionsDiv = RenderOptions(OrEmpty(data, "message"))]

\* getNextQuestion from the decoded body to the end of the try block.
getNextQuestionBody(s, data) ==
  LET s1 == IF TruthyStr(data, "error")
              THEN addMessage(s, "System", data.error)
              ELSE addMessage(s, "AI", Str(data, "message"))
  IN [s1 EXCEPT !.optionsDiv = RenderOptions(OrEmpty(data, "message"))]

\* The continuation of getNextQuestion when its fetch settles.
getNextQuestionResume(s, outcome, data) ==
  IF outcome = "ok" THEN finally(getNextQuestionBody(s, data))
  ELSE finally(catch(s))

\* await getNextQuestion() inside another flow: when the call returns at its
\* gate the caller goes on to its finally block at once; when it issues a
\* request the caller stays suspended, and its finally block (the same two
\* assignments) runs right after the one of getNextQuestion.
awaitGetNextQuestion(s) ==
  LET s1 == getNextQuestion(s)
  IN IF s1.inflight = s.inflight THEN finally(s1) ELSE s1

\* sendAnswer asking for the next question before it shows the response.
sendAnswerResume_ChainFirst(s, outcome, data) ==
  IF outcome = "ok"
    THEN IF ~(Has(data, "done") /\ data.done)
           THEN finally(addMessage(getNextQuestion(s), "AI", Str(data, "message")))
           ELSE finally(addMessage(s, "AI", Str(data, "message")))
    ELSE finally(catch(s))

\* The continuation of sendAnswer when its fetch settles.
sendAnswerResume(s, outcome, data) ==
  IF outcome = "ok"
    THEN LET s1 == addMessage(s, "AI", Str(data, "message"))
         IN IF ~(Has(data, "done") /\ data.done)
              THEN awaitGetNextQuestion(s1)
              ELSE finally(s1)
    ELSE finally(catch(s))

\* resetRecommender that clears the transcript and leaves the options.
resetRecommenderResume_KeepsOptions(s, outcome, data) ==
  IF outcome = "ok"
    THEN LET s1 == [s EXCEPT !.conversationDiv = <<>>, !.userInput.value = <<>>]
             s2 == IF TruthyStr(data, "message")
                     THEN addMessage(s1, "System", data.message)
                     ELSE addMessage(s1, "System", <<"Session reset. Starting fresh...">>)
         IN awaitGetNextQuestion(s2)
    ELSE finally(catch(s))

\* The continuation of resetRecommender when its fetch settles.
resetRecommenderResume(s, outcome, data) ==
  IF outcome = "ok"
    THEN LET s1 == [s EXCEPT !.conversationDiv = <<>>,
                             !.optionsDiv = <<>>,
                             !.userInput.value = <<>>]
             s2 == IF TruthyStr(data, "message")
                     THEN addMessage(s1, "System", data.message)
                     ELSE addMessage(s1, "System", <<"Session reset. Starting fresh...">>)
         IN awaitGetNextQuestion(s2)
    ELSE finally(catch(s))

\* An option click listener that submits without echoing the choice.
optionClick_NoEcho(s, opt) == sendAnswer(s, opt)

\* The click listener of an option button labelled opt.
optionClick(s, opt) == sendAnswer(addMessage(s, "You", opt), opt)

\* handleSubmit without its test for an empty answer.
handleSubmit_NoCheck(s) ==
  LET ans == trim(s.userInput.value)
  IN sendAnswer([addMessage(s, "You", ans) EXCEPT !.userInput.value = <<>>], ans)

handleSubmit(s) ==
  LET ans == trim(s.userInput.value)
  IN IF ans # <<>>
       THEN sendAnswer([addMessage(s, "You", ans) EXCEPT !.userInput.value = <<>>], ans)
       ELSE s

-----------------------------------------------------------------------------
(* Variant B                                                               *)

\* sendChat up to its await of fetch.
sendChat(s, text) == fetch(s, "POST", "/conversation", <<text>>)

\* document.querySelectorAll(".option-button").forEach((btn) => btn.remove())
removeOptionButtons(s) ==
  LET Kept(n) == n.tag # "button"
  IN [s EXCEPT !.conversationDiv = SelectSeq(@, Kept)]

\* addOptionButtons that leaves the old buttons in place.
addOptionButtons_KeepsOld(s, options) ==
  [s EXCEPT !.conversationDiv =
     @ \o [i \in 1..Len(options) |->
             [tag |-> "button", textContent |-> options[i], class |-> "option-button"]]]

addOptionButtons(s, options) ==
  LET s1 == removeOptionButtons(s)
  IN [s1 EXCEPT !.conversationDiv =
        @ \o [i \in 1..Len(options) |->
                [tag |-> "button", textContent |-> options[i], class |-> "option-button"]]]

\* The continuation of sendChat when its fetch settles.
sendChatResume(s, outcome, data) ==
  IF outcome = "ok"
    THEN IF TruthyStr(data, "error")
           THEN addMessage(s, "System", data.error)
           ELSE LET s1 == addMessage(s, "AI", Str(data, "message"))
                IN IF Has(data, "options") /\ Len(data.options) > 0
                     THEN addOptionButtons(s1, data.options)
                     ELSE removeOptionButtons(s1)
    ELSE addMessage(s, "System", <<"Error connecting to server.">>)

\* The click listener of an option button of variant B.
optionClickB(s, opt) == sendChat(addMessage(s, "You", opt), opt)

handleSend(s) ==
  LET text == trim(s.userInput.value)
  IN IF text = <<>> THEN s
     ELSE sendChat([addMessage(s, "You", text) EXCEPT !.userInput.value = <<>>], text)

handleReset(s) == sendChat(addMessage(s, "You", <<"reset">>), <<"reset">>)

-----------------------------------------------------------------------------
(* What the user types and what the server answers.                        *)

\* The values the user leaves in the free-text input.
TypedTexts == {<<>>, <<" ">>, <<" ", "a", " ">>}

\* A body with no field: {}.
EmptyObject == [f \in {} |-> <<>>]

PlainMessage == <<"Hello">>
OptionsMessage == <<"Pick", "\n", "Options:", " ", "a", ",", " ", "b">>
BareMarkerMessage == <<"options:">>

\* Bodies of GET /next_question: { message, error? }.
NextQuestionBodies ==
  {[message |-> PlainMessage], [message |-> OptionsMessage],
   [message |-> BareMarkerMessage],
   [error |-> <<"No session">>, message |-> OptionsMessage]}

\* Bodies of POST /answer: { message, done }.
AnswerBodies ==
  {[message |-> PlainMessage, done |-> TRUE],
   [message |-> PlainMessage, done |-> FALSE],
   [message |-> PlainMessage]}

\* Bodies of POST /reset: { message? }.
ResetBodies == {[message |-> <<"Session reset.">>], [message |-> <<>>], EmptyObject}

\* Bodies of POST /conversation: { message, options?, error? }.
ChatBodies ==
  {[message |-> PlainMessage],
   [message |-> PlainMessage, options |-> <<>>],
   [message |-> PlainMessage, options |-> << <<"a">>, <<" ", "b">> >>],
   [message |-> PlainMessage, options |-> << <<"b">> >>],
   [error |-> <<"No session">>, message |-> PlainMessage]}

\* How a fetch settles: a decoded body, a rejected fetch, a body resp.json()
\* cannot decode.
Outcomes == {"ok", "reject", "badjson"}

BodiesOf(outcome, bodies) == IF outcome = "ok" THEN bodies ELSE {EmptyObject}

\* A user action is taken only while the transcript it leads to, with one
\* line for each pending response, fits MaxLines.
Bounded(s) == Len(Lines(s.conversationDiv)) + Len(s.inflight) <= MaxLines

Event(op, outcome, arg) == [op |-> op, outcome |-> outcome, arg |-> arg]

\* Whether a handler that took the page from s to s2 issued a request.
Issued(s, s2) == IF Len(s2.inflight) > Len(s.inflight) THEN "issued" ELSE "dropped"

-----------------------------------------------------------------------------
(* The state machine                                                       *)

\* The document as the browser hands it to the script.
FreshPage ==
  /\ loaded = FALSE
  /\ conversationDiv = <<>>
  /\ optionsDiv = <<>>
  /\ userInput = [value |-> <<>>, disabled |-> FALSE]
  /\ submitButton = [disabled |-> FALSE]
  /\ isFetching = FALSE
  /\ inflight = <<>>
  /\ userId = Null
  /\ invocations = <<>>

\* A page about to run its script, in a browser that has never run it or
\* that ran it at time 0.
Init ==
  /\ variant \in {"A", "B"}
  /\ FreshPage
  /\ localStorage \in {EmptyObject, setItem(EmptyObject, "wine_userId", toString(0))}
  /\ now = 1
  /\ lastEvent = Event("init", "none", <<>>)

\* The top level of the script: the identity store; variant B also registers
\* its listeners here, variant A waits for DOMContentLoaded.
RunScript ==
  /\ userId = Null
  /\ userId' = identityStore(localStorage, now).userId
  /\ localStorage' = identityStore(localStorage, now).localStorage
  /\ loaded' = (variant = "B")
  /\ lastEvent' = Event("script",
                        IF getItem(localStorage, "wine_userId") = Null
                          THEN "generated" ELSE "stored",
                        <<>>)
  /\ UNCHANGED <<variant, conversationDiv, optionsDiv, userInput, submitButton,
                 isFetching, inflight, now, invocations>>

\* The user loads the page again, now or later: a fresh document, the same
\* storage; what the old page was waiting for is abandoned.
Reload ==
  \E t \in now..MaxClock :
    /\ now' = t
    /\ loaded' = FALSE
    /\ conversationDiv' = <<>>
    /\ optionsDiv' = <<>>
    /\ userInput' = [value |-> <<>>, disabled |-> FALSE]
    /\ submitButton' = [disabled |-> FALSE]
    /\ isFetching' = FALSE
    /\ inflight' = <<>>
    /\ userId' = Null
    /\ invocations' = <<>>
    /\ lastEvent' = Event("reload", "none", <<>>)
    /\ UNCHANGED <<variant, localStorage>>

\* window DOMContentLoaded (variant A): the listeners are registered and the
\* first question is requested.
DOMContentLoaded ==
  /\ variant = "A" /\ ~loaded /\ userId # Null
  /\ loaded' = TRUE
  /\ Assign(getNextQuestion(S))
  /\ lastEvent' = Event("DOMContentLoaded", Issued(S, getNextQuestion(S)), <<>>)
  /\ UNCHANGED <<variant, userId, localStorage, now>>

\* The user edits the free-text input; a disabled input takes no edit.
TypeInput ==
  \E t \in TypedTexts :
    /\ loaded /\ ~userInput.disabled /\ userInput.value # t
    /\ userInput' = [userInput EXCEPT !.value = t]
    /\ lastEvent' = Event("input", "typed", t)
    /\ invocations' = <<>>
    /\ UNCHANGED <<variant, loaded, conversationDiv, optionsDiv, submitButton,
                   isFetching, inflight, userId, localStorage, now>>

\* A click on #submit-button (variant A); a disabled button fires no click.
SubmitClick ==
  /\ variant = "A" /\ loaded /\ ~submitButton.disabled
  /\ Bounded(handleSubmit(S))
  /\ Assign(handleSubmit(S))
  /\ lastEvent' = Event("handleSubmit",
                        IF trim(userInput.value) = <<>> THEN "empty"
                        ELSE Issued(S, handleSubmit(S)),
                        trim(userInput.value))
  /\ UNCHANGED <<variant, loaded, userId, localStorage, now>>

\* A click on an enabled option button of #options (variant A).
OptionClick ==
  \E i \in DOMAIN optionsDiv :
    /\ variant = "A" /\ ~optionsDiv[i].disabled
    /\ Bounded(optionClick(S, optionsDiv[i].textContent))
    /\ Assign(optionClick(S, optionsDiv[i].textContent))
    /\ lastEvent' = Event("optionClick",
                          Issued(S, optionClick(S, optionsDiv[i].textContent)),
                          optionsDiv[i].textContent)
    /\ UNCHANGED <<variant, loaded, userId, localStorage, now>>

\* A click on #reset-button (variant A); no code ever disables that button.
ResetClick ==
  /\ variant = "A" /\ loaded
  /\ Bounded(resetRecommender(S))
  /\ Assign(resetRecommender(S))
  /\ lastEvent' = Event("resetRecommender", Issued(S, resetRecommender(S)), <<>>)
  /\ UNCHANGED <<variant, loaded, userId, localStorage, now>>

\* The fetch of getNextQuestion settles and the function runs to its end.
GetNextQuestionSettles ==
  \E i \in DOMAIN inflight, outcome \in Outcomes :
    \E data \in BodiesOf(outcome, NextQuestionBodies) :
      /\ inflight[i].path = "/next_question"
      /\ Assign(getNextQuestionResume(Settled(S, i), outcome, data))
      /\ lastEvent' = Event("getNextQuestion", outcome, data)
      /\ UNCHANGED <<variant, loaded, userId, localStorage, now>>

\* The fetch of sendAnswer settles and the function runs to its end.
SendAnswerSettles ==
  \E i \in DOMAIN inflight, outcome \in Outcomes :
    \E data \in BodiesOf(outcome, AnswerBodies) :
      /\ inflight[i].path = "/answer"
      /\ Assign(sendAnswerResume(Settled(S, i), outcome, data))
      /\ lastEvent' = Event("sendAnswer", outcome, data)
      /\ UNCHANGED <<variant, loaded, userId, localStorage, now>>

\* The fetch of resetRecommender settles and the function runs to its end.
ResetSettles ==
  \E i \in DOMAIN inflight, outcome \in Outcomes :
    \E data \in BodiesOf(outcome, ResetBodies) :
      /\ inflight[i].path = "/reset"
      /\ Assign(resetRecommenderResume(Settled(S, i), outcome, data))
      /\ lastEvent' = Event("resetRecommender.settled", outcome, data)
      /\ UNCHANGED <<variant, loaded, userId, localStorage, now>>

\* A click on #submit-button or Enter in #user-input (variant B).
SendClick ==
  /\ variant = "B" /\ loaded
  /\ Bounded(handleSend(S))
  /\ Assign(handleSend(S))
  /\ lastEvent' = Event("handleSend",
                        IF trim(userInput.value) = <<>> THEN "empty"
                        ELSE Issued(S, handleSend(S)),
                        trim(userInput.value))
  /\ UNCHANGED <<variant, loaded, userId, localStorage, now>>

\* A click on an option button of the conversation (variant B).
OptionClickB ==
  \E i \in DOMAIN conversationDiv :
    /\ variant = "B" /\ conversationDiv[i].tag = "button"
    /\ Bounded(optionClickB(S, conversationDiv[i].textContent))
    /\ Assign(optionClickB(S, conversationDiv[i].textContent))
    /\ lastEvent' = Event("optionClickB",
                          Issued(S, optionClickB(S, conversationDiv[i].textContent)),
                          conversationDiv[i].textContent)
    /\ UNCHANGED <<variant, loaded, userId, localStorage, now>>

\* A click on #reset-button (variant B).
ResetClickB ==
  /\ variant = "B" /\ loaded
  /\ Bounded(handleReset(S))
  /\ Assign(handleReset(S))
  /\ lastEvent' = Event("handleReset", Issued(S, handleReset(S)), <<>>)
  /\ UNCHANGED <<variant, loaded, userId, localStorage, now>>

\* A fetch of sendChat settles and the function runs to its end; responses
\* may come back in any order.
SendChatSettles ==
  \E i \in DOMAIN inflight, outcome \in Outcomes :
    \E data \in BodiesOf(outcome, ChatBodies) :
      /\ inflight[i].path = "/conversation"
      /\ Assign(sendChatResume(Settled(S, i), outcome, data))
      /\ lastEvent' = Event("sendChat", outcome, data)
      /\ UNCHANGED <<variant, loaded, userId, localStorage, now>>

\* Every issued request settles.
Settles ==
  \/ GetNextQuestionSettles
  \/ SendAnswerSettles
  \/ ResetSettles
  \/ SendChatSettles

Next ==
  \/ RunScript
  \/ DOMContentLoaded
  \/ TypeInput
  \/ SubmitClick
  \/ OptionClick
  \/ ResetClick
  \/ GetNextQuestionSettles
  \/ SendAnswerSettles
  \/ ResetSettles
  \/ SendClick
  \/ OptionClickB
  \/ ResetClickB
  \/ SendChatSettles

Spec == Init /\ [][Next]_vars

\* The network answers every request: a pending fetch settles in the end.
FairSpec == Spec /\ WF_vars(Settles)

\* The life of the storage: the pages loaded one after the other.
NextSessions ==
  \/ Next
  \/ Reload

SessionsSpec == Init /\ [][NextSessions]_vars

-----------------------------------------------------------------------------
(* Claims                                                                  *)

TextsOfLines == Texts(Lines(conversationDiv))

Paths == [i \in 1..Len(inflight) |-> inflight[i].path]

\* The page but for lastEvent, variant and loaded.
page == <<conversationDiv, optionsDiv, userInput, submitButton, isFetching, inflight>>

\* The events of variant A that invoke getNextQuestion, sendAnswer or
\* resetRecommender, and the endpoint each one asks.
InvokedPath(e) ==
  CASE e.op = "DOMContentLoaded" -> "/next_question"
    [] e.op = "resetRecommender" -> "/reset"
    [] e.op \in {"handleSubmit", "optionClick"} /\ e.outcome # "empty" -> "/answer"
    [] OTHER -> "none"

\* C1: in variant A at most one request is outstanding and the flag is set
\* exactly while one is; while the flag is set, a step either settles the
\* outstanding request or (an invocation met the gate) changes nothing of the
\* page; with the flag clear, an invocation issues its request.
C1_RequestGate ==
  /\ [](variant = "A" => Len(inflight) <= 1 /\ (isFetching <=> Len(inflight) = 1))
  /\ [][(variant = "A" /\ isFetching) =>
          \/ Len(inflight') < Len(inflight)
          \/ UNCHANGED page]_vars
  /\ [][(variant = "A" /\ ~isFetching /\ InvokedPath(lastEvent') # "none") =>
          /\ isFetching'
          /\ Paths' = <<InvokedPath(lastEvent')>>]_vars

\* A reset click was dropped at the gate while a request issued after an
\* earlier, settled one is outstanding.
C1_Witness ==
  /\ variant = "A"
  /\ lastEvent.op = "resetRecommender" /\ lastEvent.outcome = "dropped"
  /\ Paths = <<"/answer">>
  /\ Len(conversationDiv) >= 2

\* C2: in variant A, when sendAnswer has processed a decoded response whose
\* done field is false, a GET /next_question request has been issued by the
\* end of that flow.
C2_TurnChaining ==
  (/\ variant = "A"
   /\ lastEvent.op = "sendAnswer" /\ lastEvent.outcome = "ok"
   /\ ~(Has(lastEvent.arg, "done") /\ lastEvent.arg.done))
  => \E i \in DOMAIN inflight :
       inflight[i].method = "GET" /\ inflight[i].path = "/next_question"

\* C3: in variant A, when resetRecommender has processed a decoded response,
\* a GET /next_question request has been issued by the end of that flow.
C3_ResetRestart ==
  (/\ variant = "A"
   /\ lastEvent.op = "resetRecommender.settled" /\ lastEvent.outcome = "ok")
  => \E i \in DOMAIN inflight :
       inflight[i].method = "GET" /\ inflight[i].path = "/next_question"

\* C4: in variant B at most one POST /conversation request is outstanding.
C4_RequestGateB == variant = "B" => Len(inflight) <= 1

\* C5: in variant A, when every request settles, a set flag is followed by a
\* clear flag with the free-text input and the submit button enabled.
C5_GateRelease ==
  (variant = "A" /\ isFetching)
    ~> (~isFetching /\ ~userInput.disabled /\ ~submitButton.disabled)

\* The gate was released on the failure path of a submission.
C5_Witness ==
  /\ variant = "A"
  /\ lastEvent.op = "sendAnswer" /\ lastEvent.outcome = "badjson"
  /\ ~isFetching /\ ~userInput.disabled /\ ~submitButton.disabled

\* The line addMessage(sender, text) renders.
LineText(sender, text) == <<sender, ": ">> \o text

\* C6: a rejected fetch appends exactly one line, the connection message of
\* the variant, after the existing nodes, leaves the option buttons as they
\* were, issues no request and ends with the input enabled (variant A: and
\* the flag clear).
C6_TransportFailure ==
  [][lastEvent'.outcome = "reject" =>
       /\ conversationDiv' =
            Append(conversationDiv,
                   [tag |-> "p", class |-> "system",
                    textContent |->
                      LineText("System",
                               IF variant = "A"
                                 THEN <<"Unable to connect to server.">>
                                 ELSE <<"Error connecting to server.">>)])
       /\ optionsDiv' = optionsDiv
       /\ Len(inflight') = Len(inflight) - 1
       /\ \A i \in DOMAIN inflight' : \E j \in DOMAIN inflight : inflight'[i] = inflight[j]
       /\ ~userInput'.disabled
       /\ variant = "A" => ~isFetching']_vars

\* A submission of variant A was rejected after an earlier exchange.
C6_Witness ==
  /\ variant = "A"
  /\ lastEvent.op = "sendAnswer" /\ lastEvent.outcome = "reject"
  /\ Len(conversationDiv) = 3
  /\ conversationDiv[3].textContent = <<"System", ": ", "Unable to connect to server.">>
  /\ optionsDiv # <<>>

\* The addMessage calls a handler makes, in call order, as the lines they
\* are to render.
CallsOf(e) ==
  CASE e.op \in {"handleSubmit", "handleSend", "optionClick", "optionClickB"}
         /\ e.outcome # "empty" -> <<LineText("You", e.arg)>>
    [] e.op = "handleReset" -> <<LineText("You", <<"reset">>)>>
    [] e.op \in {"getNextQuestion", "sendChat"} /\ e.outcome = "ok" ->
         IF TruthyStr(e.arg, "error")
           THEN <<LineText("System", e.arg.error)>>
           ELSE <<LineText("AI", Str(e.arg, "message"))>>
    [] e.op = "sendAnswer" /\ e.outcome = "ok" ->
         <<LineText("AI", Str(e.arg, "message"))>>
    [] e.op = "resetRecommender.settled" /\ e.outcome = "ok" ->
         IF TruthyStr(e.arg, "message")
           THEN <<LineText("System", e.arg.message)>>
           ELSE <<LineText("System", <<"Session reset. Starting fresh...">>)>>
    [] e.op \in {"getNextQuestion", "sendAnswer", "resetRecommender.settled"}
         /\ e.outcome # "ok" -> <<LineText("System", <<"Unable to connect to server.">>)>>
    [] e.op = "sendChat" /\ e.outcome # "ok" ->
         <<LineText("System", <<"Error connecting to server.">>)>>
    [] OTHER -> <<>>

\* The full clear: a decoded response to resetRecommender (variant A).
IsClear(e) == e.op = "resetRecommender.settled" /\ e.outcome = "ok"

\* C7: every step leaves the lines it found in place and in order and adds,
\* at the end, one line "sender: text" for each addMessage call of the
\* handler, in call order; the one exception is the clear of a decoded
\* reset response in variant A, after which the transcript holds the calls
\* made after the clear.
C7_AppendOnly ==
  [][TextsOfLines' =
       (IF variant = "A" /\ IsClear(lastEvent') THEN <<>> ELSE TextsOfLines)
         \o CallsOf(lastEvent')]_vars

\* Three calls have left three lines in call order.
C7_Witness ==
  /\ variant = "B"
  /\ lastEvent.op = "sendChat"
  /\ TextsOfLines = <<LineText("You", <<"reset">>), LineText("You", <<"a">>),
                      LineText("AI", PlainMessage)>>

\* The labels of the option buttons of variant B, in document order.
ButtonLabels == Texts(OptionButtons(conversationDiv))

\* The options list of a body, empty when the field is absent.
OptionsOf(data) == IF Has(data, "options") THEN data.options ELSE <<>>

\* C8 as stated: after sendChat has processed any decoded response the
\* option buttons are the options of that response.
C8_Original ==
  (variant = "B" /\ lastEvent.op = "sendChat" /\ lastEvent.outcome = "ok")
  => ButtonLabels = OptionsOf(lastEvent.arg)

\* C8 amended: after sendChat has processed a decoded response that carries
\* no error, the option buttons are the options of that response, in order,
\* and none when the list is absent or empty.
C8_OptionReplace ==
  (/\ variant = "B" /\ lastEvent.op = "sendChat" /\ lastEvent.outcome = "ok"
   /\ ~TruthyStr(lastEvent.arg, "error"))
  => ButtonLabels = OptionsOf(lastEvent.arg)

\* A one-option response has replaced the buttons of an earlier response,
\* one of which the user had clicked.
C8_Witness ==
  /\ variant = "B" /\ lastEvent.op = "sendChat" /\ lastEvent.outcome = "ok"
  /\ ~TruthyStr(lastEvent.arg, "error")
  /\ ButtonLabels = << <<"b">> >>
  /\ \E i \in DOMAIN TextsOfLines : TextsOfLines[i] = LineText("You", <<" ", "b">>)

\* The labels of the option buttons of variant A, in order.
OptionLabels == Texts(optionsDiv)

\* The pieces of a list that are not empty.
NonEmpty(pieces) == LET Full(x) == x # <<>> IN SelectSeq(pieces, Full)

\* C9: after getNextQuestion has processed a decoded response the option
\* buttons are the non-empty trimmed pieces of what follows the marker, and
\* none when the message has no marker; no button has an empty label.
C9_OptionExtraction ==
  (variant = "A" /\ lastEvent.op = "getNextQuestion" /\ lastEvent.outcome = "ok")
  => LET m == match(OrEmpty(lastEvent.arg, "message"))
     IN /\ OptionLabels = (IF m.found THEN NonEmpty(ParseOptions(m.group)) ELSE <<>>)
        /\ \A i \in DOMAIN OptionLabels : OptionLabels[i] # <<>>

\* The user has typed t into the free-text input.
Typed(s, t) == [s EXCEPT !.userInput.value = t]

\* What a submission leaves behind, the value of the input aside (a click
\* leaves what the user had typed, a typed submission empties the input).
Effect(s) ==
  <<s.conversationDiv, s.optionsDiv, s.userInput.disabled, s.submitButton,
    s.isFetching, s.inflight>>

\* The labels of the buttons the user can click in this state.
Clickable ==
  IF variant = "A"
    THEN {optionsDiv[i].textContent : i \in {j \in DOMAIN optionsDiv : ~optionsDiv[j].disabled}}
    ELSE {ButtonLabels[i] : i \in DOMAIN ButtonLabels}

\* A click on the button labelled t and a typed submission of t do the same.
ClickIsSubmit(t) ==
  IF variant = "A"
    THEN Effect(optionClick(S, t)) = Effect(handleSubmit(Typed(S, t)))
    ELSE Effect(optionClickB(S, t)) = Effect(handleSend(Typed(S, t)))

\* C10 as stated: from any state, a click on an option button labelled t has
\* the effect of typing t and submitting it.
C10_Original == \A t \in Clickable : ClickIsSubmit(t)

\* C10 amended: the same for a label that is not empty and has no white
\* space at either end; the click appends "You: t" and posts t.
C10_ClickIsSubmit ==
  \A t \in Clickable :
    (t # <<>> /\ trim(t) = t) =>
      /\ ClickIsSubmit(t)
      /\ LET s2 == IF variant = "A" THEN optionClick(S, t) ELSE optionClickB(S, t)
         IN /\ s2.conversationDiv =
                 Append(conversationDiv,
                        [tag |-> "p", textContent |-> LineText("You", t), class |-> "you"])
            /\ s2.inflight =
                 Append(inflight,
                        [method |-> "POST", user_id |-> userId,
                         path |-> IF variant = "A" THEN "/answer" ELSE "/conversation",
                         body |-> <<t>>])

\* The user has clicked the option "a" of variant A and the answer is posted.
C10_Witness ==
  /\ variant = "A"
  /\ lastEvent = Event("optionClick", "issued", <<"a">>)
  /\ TextsOfLines[Len(TextsOfLines)] = LineText("You", <<"a">>)
  /\ inflight = <<[method |-> "POST", path |-> "/answer", user_id |-> userId,
                   body |-> << <<"a">> >>]>>

\* The last line of the transcript.
LastLine == TextsOfLines[Len(TextsOfLines)]

\* A decoded response asks for the next question: one to sendAnswer that is
\* not done, any one to resetRecommender.
Chains(e) ==
  /\ e.outcome = "ok"
  /\ \/ e.op = "sendAnswer" /\ ~(Has(e.arg, "done") /\ e.arg.done)
     \/ e.op = "resetRecommender.settled"

\* C11: in variant A, the flow of a decoded response that asks for the next
\* question calls getNextQuestion once, and that call finds the transcript
\* as the flow leaves it, the line of the response (AI for sendAnswer, System
\* for resetRecommender) last: the line is appended before the call and the
\* call changes nothing before it.
C11_ResponseBeforeFollowUp ==
  (variant = "A" /\ lastEvent.op \in {"sendAnswer", "resetRecommender.settled"})
  => IF Chains(lastEvent)
       THEN /\ invocations = <<TextsOfLines>>
            /\ LastLine = CallsOf(lastEvent)[1]
       ELSE invocations = <<>>

\* The response to an answer was shown and then the next question asked for.
C11_Witness ==
  /\ variant = "A"
  /\ lastEvent.op = "sendAnswer" /\ Chains(lastEvent)
  /\ invocations = <<TextsOfLines>>
  /\ Len(TextsOfLines) = 3
  /\ LastLine = LineText("AI", PlainMessage)

\* The storage holds an identifier.
HasId == Has(localStorage, "wine_userId")

\* C12: the script run on an empty storage takes toString(Date.now()) as
\* identifier and writes it under wine_userId; run on a storage that holds
\* one it takes the stored one and writes nothing; a stored identifier never
\* changes, the identifier of a page never changes, and every request
\* carries it.
C12_IdentityPersistence ==
  /\ [][lastEvent'.op = "script" =>
          IF HasId
            THEN userId' = localStorage["wine_userId"] /\ localStorage' = localStorage
            ELSE /\ userId' = toString(now)
                 /\ localStorage' = [k \in {"wine_userId"} |-> toString(now)]]_vars
  /\ [][HasId => localStorage' = localStorage]_vars
  /\ [][(userId # Null /\ lastEvent'.op # "reload") => userId' = userId]_vars
  /\ [](userId # Null =>
          /\ HasId /\ localStorage["wine_userId"] = userId
          /\ \A i \in DOMAIN inflight : inflight[i].user_id = userId)

\* A page loaded at time 2 took the identifier a page generated at time 1.
C12_Witness ==
  /\ lastEvent = Event("script", "stored", <<>>)
  /\ now = 2
  /\ userId = <<"1">>
  /\ localStorage["wine_userId"] = <<"1">>

\* C13: a decoded response to getNextQuestion or sendChat with a non-empty
\* error appends the one line "System: error" and one without an error field
\* the one line "AI: message"; neither issues a request.
C13_ServerError ==
  [][(lastEvent'.op \in {"getNextQuestion", "sendChat"} /\ lastEvent'.outcome = "ok") =>
       /\ TruthyStr(lastEvent'.arg, "error") =>
            TextsOfLines' = Append(TextsOfLines, LineText("System", lastEvent'.arg.error))
       /\ ~Has(lastEvent'.arg, "error") =>
            TextsOfLines' = Append(TextsOfLines, LineText("AI", lastEvent'.arg.message))
       /\ Len(inflight') = Len(inflight) - 1
       /\ \A i \in DOMAIN inflight' : \E j \in DOMAIN inflight : inflight'[i] = inflight[j]]_vars

\* The first question came back as an error of the server.
C13_Witness ==
  /\ variant = "A"
  /\ lastEvent.op = "getNextQuestion" /\ lastEvent.outcome = "ok"
  /\ TruthyStr(lastEvent.arg, "error")
  /\ TextsOfLines = <<LineText("System", <<"No session">>)>>
  /\ inflight = <<>>

\* C14: in variant A, while the flag is set, the input, the submit button
\* and every option button are disabled.
C14_DisabledInFlight ==
  (variant = "A" /\ isFetching)
  => /\ userInput.disabled
     /\ submitButton.disabled
     /\ \A i \in DOMAIN optionsDiv : optionsDiv[i].disabled

\* An answer is on the wire and the options of the question are disabled.
C14_Witness ==
  /\ variant = "A" /\ isFetching
  /\ Paths = <<"/answer">>
  /\ Len(optionsDiv) = 2
  /\ \A i \in DOMAIN optionsDiv : optionsDiv[i].disabled
  /\ userInput.disabled /\ submitButton.disabled

\* C15: in variant A, a step that appends a "You" line finds the flag clear
\* and issues the POST /answer of that answer; handleSubmit with an answer
\* and an option click are such steps.
C15_AnswerIsPosted ==
  /\ [][(variant = "A" /\ Len(TextsOfLines') > Len(TextsOfLines)
          /\ TextsOfLines'[Len(TextsOfLines')][1] = "You") =>
          /\ ~isFetching
          /\ Len(inflight') = Len(inflight) + 1]_vars
  /\ [][(variant = "A" /\ lastEvent'.op \in {"handleSubmit", "optionClick"}
          /\ lastEvent'.outcome # "empty") =>
          /\ TextsOfLines' = Append(TextsOfLines, LineText("You", lastEvent'.arg))
          /\ inflight' = <<[method |-> "POST", path |-> "/answer", user_id |-> userId,
                            body |-> <<lastEvent'.arg>>]>>]_vars

\* A typed answer was echoed and posted.
C15_Witness ==
  /\ variant = "A"
  /\ lastEvent = Event("handleSubmit", "issued", <<"a">>)
  /\ LastLine = LineText("You", <<"a">>)
  /\ Paths = <<"/answer">>

\* An event that empties the option set of variant A.
ClearsOptions(e) ==
  e.op \in {"getNextQuestion", "resetRecommender.settled"} /\ e.outcome = "ok"

\* C16: in variant A a disabled option button stays as it is, disabled, in
\* every step but one that clears the option set, and an option click leaves
\* every button disabled: one set of buttons posts at most one answer.
C16_SingleUse ==
  [][variant = "A" =>
       /\ \A i \in DOMAIN optionsDiv :
            optionsDiv[i].disabled =>
              \/ ClearsOptions(lastEvent')
              \/ i \in DOMAIN optionsDiv' /\ optionsDiv'[i] = optionsDiv[i]
       /\ lastEvent'.op = "optionClick" =>
            /\ Len(optionsDiv') = Len(optionsDiv)
            /\ \A i \in DOMAIN optionsDiv' : optionsDiv'[i].disabled]_vars

\* The answer given by a click has been answered, the controls are enabled
\* again and the option buttons are still disabled.
C16_Witness ==
  /\ variant = "A" /\ ~isFetching /\ ~submitButton.disabled
  /\ lastEvent.op = "sendAnswer"
  /\ Len(optionsDiv) = 2
  /\ \A i \in DOMAIN optionsDiv : optionsDiv[i].disabled
  /\ \E i \in DOMAIN TextsOfLines : TextsOfLines[i] = LineText("You", <<"b">>)

\* C17: a submission of an empty or blank input (handleSubmit, handleSend)
\* changes nothing of the page.
C17_EmptySubmission ==
  [][(lastEvent'.op \in {"handleSubmit", "handleSend"} /\ trim(userInput.value) = <<>>) =>
       UNCHANGED page]_vars

\* A blank input was submitted in variant A and is still in the input.
C17_Witness ==
  /\ variant = "A"
  /\ lastEvent = Event("handleSubmit", "empty", <<>>)
  /\ userInput.value = <<" ">>
  /\ Len(TextsOfLines) = 1
  /\ inflight = <<>>

\* The fallback confirmation of resetRecommender.
DefaultConfirmation == <<"Session reset. Starting fresh...">>

\* resetRecommender has just processed a decoded response.
AfterReset ==
  variant = "A" /\ lastEvent.op = "resetRecommender.settled" /\ lastEvent.outcome = "ok"

\* C18 as stated: after a decoded reset response the transcript is the one
\* line "System: message" when the response carries a message and the
\* fallback otherwise, and the option set and the input are empty.
C18_Original ==
  AfterReset =>
    /\ TextsOfLines =
         <<LineText("System",
                    IF Has(lastEvent.arg, "message") THEN lastEvent.arg.message
                    ELSE DefaultConfirmation)>>
    /\ optionsDiv = <<>>
    /\ userInput.value = <<>>

\* C18 amended: the same with the message shown when it is not empty and the
\* fallback when it is empty or absent; and a reset whose fetch fails leaves
\* the transcript, but for the line of the failure, and the option set.
C18_ResetEffect ==
  /\ [](AfterReset =>
          /\ TextsOfLines =
               <<LineText("System",
                          IF TruthyStr(lastEvent.arg, "message") THEN lastEvent.arg.message
                          ELSE DefaultConfirmation)>>
          /\ optionsDiv = <<>>
          /\ userInput.value = <<>>)
  /\ [][(lastEvent'.op = "resetRecommender.settled" /\ lastEvent'.outcome # "ok") =>
          /\ TextsOfLines' =
               Append(TextsOfLines, LineText("System", <<"Unable to connect to server.">>))
          /\ optionsDiv' = optionsDiv]_vars

\* A reset answered with {} has left the fallback line alone on the page.
C18_Witness ==
  /\ AfterReset
  /\ lastEvent.arg = EmptyObject
  /\ TextsOfLines = <<LineText("System", DefaultConfirmation)>>
  /\ optionsDiv = <<>>

====
